---- MODULE Spec2Model ----
(***************************************************************************)
(* Verification model of the `blocking` crate (src/src/lib.rs):            *)
(*   - the blocking executor (Executor::schedule / grow_pool / main_loop), *)
(*   - the SPSC byte pipe (Reader::poll_read / Writer::poll_write / Drop), *)
(*   - the Blocking handle in its Reading and Writing states.              *)
(***************************************************************************)
EXTENDS Integers, Sequences, FiniteSets, TLC

(***************************************************************************)
(* Bounds of the model.                                                    *)
(***************************************************************************)
\* Longest executor queue the environment builds up.
MaxQueue == 1
\* Number of submissions in the runs in which the submissions come to an end.
MaxSubmit == 6
\* In the runs checked for progress under a flood, the blocking calls return
\* only while fewer than MaxWaiting workers sit in wait_timeout.
MaxWaiting == 2
\* Pipe capacities 1..MaxCap are tried.
MaxCap == 2
\* Longest source / destination slice handed to one poll_write / poll_read.
MaxChunk == 2
\* Total number of bytes the writer's sources hold.
MaxBytes == 5
\* Number of blocking tasks one handle starts.
MaxSessions == 2
\* Number of items the wrapped iterator yields.
MaxItems == 3
\* Number of runnables other callers submit while a handle is used and dropped.
MaxOther == 2
MaxZeroExtra == 1
MaxZeroRounds == 2
MaxBurst == 7
MaxBurstRoom == 2

(***************************************************************************)
(* Program constants.                                                      *)
(***************************************************************************)
\* lib.rs:224  `inner.thread_count < 500`
MAX_THREADS == 500
\* lib.rs:224  `inner.queue.len() > inner.idle_count * 5`
GROW_FACTOR == 5
\* lib.rs:924, lib.rs:1019  `(128 * 1024)`
CHUNK_LIMIT == 131072
\* lib.rs:1020  `self.zeroed_until * 2 + 4096`
ZERO_STEP == 4096
\* lib.rs:536  `mpsc::channel(8 * 1024)`
CHANNEL_CAP == 8192

(***************************************************************************)
(* State.                                                                  *)
(***************************************************************************)
VARIABLES
    \* ---- Executor (struct Inner, lib.rs:137-150) ----
    idle_count,     \* Inner::idle_count
    thread_count,   \* Inner::thread_count
    queue,          \* Inner::queue : sequence of runnable ids (1 = the observed runnable)
    \* ---- positions of the worker threads (main_loop, lib.rs:175-208) ----
    starting,       \* threads spawned by grow_pool that have not yet locked `inner`
    waiting,        \* threads inside cvar.wait_timeout
    running,        \* running[r] : threads inside runnable.run() of a runnable with id r
    caught,         \* threads whose catch_unwind caught a panic of runnable.run() and
                    \* that have not yet locked `inner` again
    submits,        \* submissions the callers have still to make (finite runs only)
    locked,         \* Executor::inner : a MutexGuard of the Mutex<Inner> is alive
    \* ---- Pipe (struct Pipe, lib.rs:820-841) ----
    pipe,           \* [head, tail, reader, writer, closed, buffer, cap]
    rd,             \* struct Reader (lib.rs:769-782) and the position of its owner
    wr,             \* struct Writer (lib.rs:786-806) and the position of its owner
    sent,           \* number of bytes copied into the pipe so far (byte i has value i)
    recvd,          \* the bytes copied out of the pipe so far, in order
    \* ---- Blocking<T> (lib.rs:306, enum State lib.rs:487-508) ----
    state,          \* the variant of State<T>: "Idle", "Reading", "Writing"
    inner,          \* State::Idle(Some(_)): the wrapped value is in the idle slot
    task,           \* the blocking task of the handle: [kind, status, res, n]
    io,             \* the wrapped value: [kind, flushed, error]
    call,           \* the caller's current trait call: [op, len, pc, from, last, ret, n]
    stream          \* the channel of State::Streaming and the iterator:
                    \* [queue, tx, rx, next, got]

execVars ==
    <<idle_count, thread_count, queue, starting, waiting, running, caught, submits, locked>>
pipeVars == <<pipe, rd, wr, sent, recvd>>
handleVars == <<state, inner, task, io, call, stream>>
vars == <<execVars, pipeVars, handleVars>>

\* Runnable ids: 0 is any runnable, 1 is the runnable whose progress is observed.
RunnableIds == {0, 1}

(***************************************************************************)
(* Executor                                                                *)
(***************************************************************************)
RECURSIVE GrowCountNoCap(_, _, _)
\* GrowCount as it would be without the `thread_count < 500` test.
GrowCountNoCap(qlen, idle, threads) ==
    IF qlen > idle * GROW_FACTOR
    THEN 1 + GrowCountNoCap(qlen, idle + 1, threads + 1)
    ELSE 0

RECURSIVE GrowCountWhenNoIdle(_, _, _)
\* GrowCount as it would be if the pool grew only while no thread is idle.
GrowCountWhenNoIdle(qlen, idle, threads) ==
    IF qlen > 0 /\ idle = 0 /\ threads < MAX_THREADS
    THEN 1 + GrowCountWhenNoIdle(qlen, idle + 1, threads + 1)
    ELSE 0

RECURSIVE GrowCount(_, _, _)
\* Number of threads the `while` loop of grow_pool spawns for a queue of length
\* qlen, idle count idle and thread count threads.
GrowCount(qlen, idle, threads) ==
    IF qlen > idle * GROW_FACTOR /\ threads < MAX_THREADS
    THEN 1 + GrowCount(qlen, idle + 1, threads + 1)
    ELSE 0

\* grow_pool as it would be if a new thread were not counted idle when spawned.
grow_pool_not_idle(q, idle, threads, st) ==
    LET k == GrowCount(Len(q), idle, threads) IN
    /\ idle_count' = idle
    /\ thread_count' = threads + k
    /\ starting' = st + k
    /\ locked' = FALSE

\* grow_pool if it borrowed the guard (`inner: &mut MutexGuard`) and left it
\* alive in its caller.
grow_pool_keeps_guard(q, idle, threads, st) ==
    LET k == GrowCount(Len(q), idle, threads) IN
    /\ idle_count' = idle + k
    /\ thread_count' = threads + k
    /\ starting' = st + k
    /\ locked' = TRUE

\* Executor::grow_pool entered with the mutex held, the queue q, and the counters
\* idle and threads; st is the number of spawned threads that have not started
\* yet.  Every new thread is counted in idle_count and thread_count at once.
\* grow_pool takes the MutexGuard by value: the guard is dropped, and the mutex
\* released, when grow_pool returns.
grow_pool(q, idle, threads, st) ==
    LET k == GrowCount(Len(q), idle, threads) IN
    /\ idle_count' = idle + k
    /\ thread_count' = threads + k
    /\ starting' = st + k
    /\ locked' = FALSE

\* Executor::schedule: push_back, notify_one, grow_pool, all under the mutex.
\* Runnable 1 is one task's runnable: it is not scheduled while it is queued or
\* running.
enqueue(r) ==
    /\ ~locked
    /\ r = 1 => (\A i \in 1..Len(queue) : queue[i] # 1) /\ running[1] = 0
    /\ queue' = Append(queue, r)
    /\ grow_pool(queue', idle_count, thread_count, starting)
    /\ UNCHANGED <<waiting, running, caught, pipeVars, handleVars>>

\* Executor::schedule while the queue is short.
schedule(r) == Len(queue) < MaxQueue /\ enqueue(r)

\* run_tasks as it would be if the worker kept the guard while it runs the
\* runnable (grow_pool borrowing it).
run_tasks_holds_guard(idle, st, wt, rn) ==
    IF queue # <<>>
    THEN /\ queue' = Tail(queue)
         /\ grow_pool_keeps_guard(queue', idle, thread_count, st)
         /\ running' = [rn EXCEPT ![Head(queue)] = @ + 1]
         /\ waiting' = wt
    ELSE /\ idle_count' = idle + 1
         /\ waiting' = wt + 1
         /\ running' = rn
         /\ starting' = st
         /\ locked' = FALSE
         /\ UNCHANGED <<queue, thread_count>>

\* main_loop from the head of `while let Some(runnable) = inner.queue.pop_front()`
\* to the point where the thread releases the mutex, for a thread that is not
\* counted idle: either it pops a runnable, grows the pool and runs the runnable
\* outside the mutex, or it counts itself idle and enters cvar.wait_timeout.
\* idle is idle_count at the loop head; st, wt, rn are the thread positions with
\* this thread taken out.
run_tasks(idle, st, wt, rn) ==
    IF queue # <<>>
    THEN /\ queue' = Tail(queue)
         /\ grow_pool(queue', idle, thread_count, st)
         /\ running' = [rn EXCEPT ![Head(queue)] = @ + 1]
         /\ waiting' = wt
    ELSE /\ idle_count' = idle + 1
         /\ waiting' = wt + 1
         /\ running' = rn
         /\ starting' = st
         /\ locked' = FALSE
         /\ UNCHANGED <<queue, thread_count>>

\* WorkerStart as it would be without the `idle_count -= 1` at the head of the
\* loop.
WorkerStartNoIdleDecrement ==
    /\ starting > 0 /\ ~locked
    /\ run_tasks(idle_count, starting - 1, waiting, running)
    /\ UNCHANGED <<caught, submits, pipeVars, handleVars>>

\* A thread spawned by grow_pool enters main_loop: locks, `idle_count -= 1`, then
\* the task loop.
WorkerStart ==
    /\ starting > 0 /\ ~locked
    /\ run_tasks(idle_count - 1, starting - 1, waiting, running)
    /\ UNCHANGED <<caught, submits, pipeVars, handleVars>>

\* runnable.run() returns: the thread re-locks `inner` and continues the task
\* loop.
WorkerFinish(r) ==
    /\ running[r] > 0 /\ ~locked
    /\ run_tasks(idle_count, starting, waiting, [running EXCEPT ![r] = @ - 1])
    /\ UNCHANGED <<caught, submits, pipeVars, handleVars>>

\* WorkerPanic as it would be without catch_unwind: the panic ends the thread.
WorkerPanicUncaught(r) ==
    /\ running[r] > 0
    /\ running' = [running EXCEPT ![r] = @ - 1]
    /\ UNCHANGED <<idle_count, thread_count, queue, starting, waiting, caught, locked>>
    /\ UNCHANGED <<submits, pipeVars, handleVars>>

\* runnable.run() panics: `panic::catch_unwind(|| runnable.run())` catches the
\* panic and the result is dropped.  The mutex is not held while the runnable
\* runs (grow_pool took the guard), so it is not poisoned.
WorkerPanic(r) ==
    /\ running[r] > 0
    /\ running' = [running EXCEPT ![r] = @ - 1]
    /\ caught' = caught + 1
    /\ UNCHANGED <<idle_count, thread_count, queue, starting, waiting, locked>>
    /\ UNCHANGED <<submits, pipeVars, handleVars>>

\* After a caught panic: `inner = self.inner.lock().unwrap()` and the next turn
\* of the task loop.
WorkerRelock ==
    /\ caught > 0 /\ ~locked
    /\ caught' = caught - 1
    /\ run_tasks(idle_count, starting, waiting, running)
    /\ UNCHANGED <<submits, pipeVars, handleVars>>

\* WorkerWake as it would be if a thread whose wait timed out stopped without
\* looking at the queue.
WorkerWakeNoQueueCheck(timed_out) ==
    /\ waiting > 0 /\ ~locked
    /\ IF timed_out
       THEN /\ idle_count' = idle_count - 1
            /\ thread_count' = thread_count - 1
            /\ waiting' = waiting - 1
            /\ locked' = FALSE
            /\ UNCHANGED <<queue, starting, running>>
       ELSE run_tasks(idle_count - 1, starting, waiting - 1, running)
    /\ UNCHANGED <<caught, submits, pipeVars, handleVars>>

\* WorkerWake as it would be without the `res.timed_out()` test: a thread that
\* wakes up and finds the queue empty stops.
WorkerWakeNoTimeoutCheck(timed_out) ==
    /\ waiting > 0 /\ ~locked
    /\ IF queue = <<>>
       THEN /\ idle_count' = idle_count - 1
            /\ thread_count' = thread_count - 1
            /\ waiting' = waiting - 1
            /\ locked' = FALSE
            /\ UNCHANGED <<queue, starting, running>>
       ELSE run_tasks(idle_count - 1, starting, waiting - 1, running)
    /\ UNCHANGED <<caught, submits, pipeVars, handleVars>>

\* WorkerWake as it would be if a stopping thread left thread_count as it is.
WorkerWakeNoThreadDecrement(timed_out) ==
    /\ waiting > 0 /\ ~locked
    /\ IF timed_out /\ queue = <<>>
       THEN /\ idle_count' = idle_count - 1
            /\ waiting' = waiting - 1
            /\ locked' = FALSE
            /\ UNCHANGED <<thread_count, queue, starting, running>>
       ELSE run_tasks(idle_count - 1, starting, waiting - 1, running)
    /\ UNCHANGED <<caught, submits, pipeVars, handleVars>>

\* cvar.wait_timeout returns with the mutex held.  timed_out is what
\* res.timed_out() reports; a wait may end by notify_one / notify_all, by the
\* 500 ms timeout, or spuriously.
WorkerWake(timed_out) ==
    /\ waiting > 0 /\ ~locked
    /\ IF timed_out /\ queue = <<>>
       THEN /\ idle_count' = idle_count - 1
            /\ thread_count' = thread_count - 1
            /\ waiting' = waiting - 1
            /\ locked' = FALSE
            /\ UNCHANGED <<queue, starting, running>>
       ELSE run_tasks(idle_count - 1, starting, waiting - 1, running)
    /\ UNCHANGED <<caught, submits, pipeVars, handleVars>>

(***************************************************************************)
(* Pipe                                                                    *)
(***************************************************************************)
Min(a, b) == IF a <= b THEN a ELSE b

\* The closure `distance` of poll_read / poll_write: distance between two indices
\* in 0..2*cap.
distance(a, b) == IF a <= b THEN b - a ELSE 2 * pipe.cap - (a - b)

\* The closure `real_index`: the index in 0..cap of an index in 0..2*cap.
real_index(i) == IF i < pipe.cap THEN i ELSE i - pipe.cap

\* advance as it would be if the indices wrapped at cap instead of 2*cap.
advance_wrap_at_cap(i, n) == IF i + n < pipe.cap THEN i + n ELSE 0

\* "Move the head forward" / "Move the tail forward": an index advanced by n.
advance(i, n) == IF i + n < 2 * pipe.cap THEN i + n ELSE 0

\* AtomicWaker::wake on the reader's waker: a registered waker is taken and the
\* task that owns the Reader is notified.
wake_reader(r) ==
    IF pipe.reader THEN [r EXCEPT !.woken = TRUE] ELSE r

\* wake_writer as it would be if the wake-up did not reach the writer's task.
wake_writer_lost(w) == w

\* AtomicWaker::wake on the writer's waker.
wake_writer(w) ==
    IF pipe.writer THEN [w EXCEPT !.woken = TRUE] ELSE w

\* fn pipe(cap): the Pipe, the Reader and the Writer right after construction.
\* A buffer byte is -1 while uninitialized, 0 when zeroed, and i when it holds
\* the i-th byte copied in.
NewPipe(c) ==
    [head |-> 0, tail |-> 0, reader |-> FALSE, writer |-> FALSE,
     closed |-> FALSE, buffer |-> [i \in 0..(c - 1) |-> -1], cap |-> c]
NewReader ==
    [head |-> 0, tail |-> 0, pc |-> "idle", count |-> 0, dest |-> 0,
     ret |-> "none", woken |-> FALSE, alive |-> TRUE]
NewWriter ==
    [head |-> 0, tail |-> 0, zeroed_until |-> 0, pc |-> "idle", count |-> 0,
     src |-> 0, ret |-> "none", woken |-> FALSE, alive |-> TRUE]

pipe_new(c) ==
    /\ pipe = NewPipe(c)
    /\ rd = NewReader
    /\ wr = NewWriter
    /\ sent = 0
    /\ recvd = <<>>

(* ------------------------- Reader::poll_read -------------------------- *)

\* Entry of Reader::poll_read with a destination that has room for d bytes:
\* the first `distance(self.head, self.tail) == 0` test is on the reader's own
\* fields.
reader_enter(d) ==
    /\ rd.alive /\ rd.pc = "idle"
    /\ rd' = [rd EXCEPT !.pc = IF distance(rd.head, rd.tail) = 0 THEN "load1" ELSE "take",
                        !.count = 0, !.dest = d, !.ret = "none", !.woken = FALSE]
    /\ UNCHANGED <<pipe, wr, sent, recvd>>

\* `self.tail = self.inner.tail.load(Acquire)` (first reload) and the test after it.
R_Load1 ==
    /\ rd.pc = "load1"
    /\ rd' = [rd EXCEPT !.tail = pipe.tail,
                        !.pc = IF distance(rd.head, pipe.tail) = 0 THEN "register" ELSE "take"]
    /\ UNCHANGED <<pipe, wr, sent, recvd, execVars, handleVars>>

\* `self.inner.reader.register(cx.waker())` and the SeqCst fence.
R_Register ==
    /\ rd.pc = "register"
    /\ pipe' = [pipe EXCEPT !.reader = TRUE]
    /\ rd' = [rd EXCEPT !.pc = "load2"]
    /\ UNCHANGED <<wr, sent, recvd, execVars, handleVars>>

\* R_Load2 as it would be without the reload of the tail after the waker is
\* registered: the reader goes on with the tail it loaded before.
R_Load2_NoReload ==
    /\ rd.pc = "load2"
    /\ rd' = [rd EXCEPT !.pc = "closed"]
    /\ UNCHANGED <<pipe, wr, sent, recvd, execVars, handleVars>>

\* The reload of the tail after registering the waker, and the test after it.
R_Load2 ==
    /\ rd.pc = "load2"
    /\ rd' = [rd EXCEPT !.tail = pipe.tail,
                        !.pc = IF distance(rd.head, pipe.tail) = 0 THEN "closed" ELSE "take"]
    /\ UNCHANGED <<pipe, wr, sent, recvd, execVars, handleVars>>

\* `self.inner.closed.load(Relaxed)`: Ready(Ok(0)) when closed, else Pending.
R_Closed ==
    /\ rd.pc = "closed"
    /\ rd' = [rd EXCEPT !.pc = "idle", !.ret = IF pipe.closed THEN "ready" ELSE "pending"]
    /\ UNCHANGED <<pipe, wr, sent, recvd, execVars, handleVars>>

\* `self.inner.reader.take()`: the pipe is not empty, remove the waker.
R_Take ==
    /\ rd.pc = "take"
    /\ pipe' = [pipe EXCEPT !.reader = FALSE]
    /\ rd' = [rd EXCEPT !.pc = "copy"]
    /\ UNCHANGED <<wr, sent, recvd, execVars, handleVars>>

\* reader_n as it would be without the `distance(self.head, self.tail)` term.
reader_n_no_distance_limit ==
    Min(CHUNK_LIMIT, pipe.cap - real_index(rd.head))

\* Size of the slice the reader hands to dest.write.
reader_n ==
    Min(Min(CHUNK_LIMIT, distance(rd.head, rd.tail)), pipe.cap - real_index(rd.head))

\* The Reader's fields after one iteration of the copy loop in which dest.write
\* returns Ok(k).
reader_after(k) ==
    IF k = 0
    THEN [rd EXCEPT !.pc = "idle", !.ret = "ready"]
    ELSE [rd EXCEPT !.pc = "store", !.count = @ + k, !.dest = @ - k,
                    !.head = advance(rd.head, k)]

\* One iteration of the copy loop in which dest.write returns Ok(k): the first k
\* bytes of the slice are copied out; k = 0 ends the poll with Ready(Ok(count)),
\* otherwise the head moves forward.
reader_copy(k) ==
    /\ rd.pc = "copy"
    /\ k <= reader_n
    /\ LET from == real_index(rd.head) IN
       recvd' = recvd \o [j \in 1..k |-> pipe.buffer[from + j - 1]]
    /\ rd' = reader_after(k)
    /\ UNCHANGED <<pipe, wr, sent>>

\* dest.write on a destination with rd.dest bytes of room left: it takes between
\* one byte and all it can of the slice, and nothing when there is no room or the
\* slice is empty.
R_Copy ==
    /\ rd.pc = "copy"
    /\ \E k \in 0..Min(reader_n, rd.dest) :
          /\ (k = 0) <=> (Min(reader_n, rd.dest) = 0)
          /\ reader_copy(k)
    /\ UNCHANGED <<execVars, handleVars>>

\* `self.inner.head.store(self.head, Release)`.
R_Store ==
    /\ rd.pc = "store"
    /\ pipe' = [pipe EXCEPT !.head = rd.head]
    /\ rd' = [rd EXCEPT !.pc = "wake"]
    /\ UNCHANGED <<wr, sent, recvd, execVars, handleVars>>

\* `self.inner.writer.wake()`, then the next iteration of the copy loop.
R_Wake ==
    /\ rd.pc = "wake"
    /\ wr' = wake_writer(wr)
    /\ pipe' = [pipe EXCEPT !.writer = FALSE]
    /\ rd' = [rd EXCEPT !.pc = "copy"]
    /\ UNCHANGED <<sent, recvd, execVars, handleVars>>

(* ------------------------- Writer::poll_write ------------------------- *)

\* Entry of Writer::poll_write with a source that holds s bytes.
writer_enter(s) ==
    /\ wr.alive /\ wr.pc = "idle"
    /\ wr' = [wr EXCEPT !.pc = "closed0", !.count = 0, !.src = s, !.ret = "none",
                        !.woken = FALSE]
    /\ UNCHANGED <<pipe, rd, sent, recvd>>

\* W_Closed0 as it would be without the quick check of `closed`.
W_Closed0_NoQuickCheck ==
    /\ wr.pc = "closed0"
    /\ wr' = [wr EXCEPT !.pc = IF distance(wr.head, wr.tail) = pipe.cap
                               THEN "load1" ELSE "take"]
    /\ UNCHANGED <<pipe, rd, sent, recvd, execVars, handleVars>>

\* The quick relaxed check of `closed`, then the `distance == cap` test on the
\* writer's own fields.
W_Closed0 ==
    /\ wr.pc = "closed0"
    /\ wr' = IF pipe.closed
             THEN [wr EXCEPT !.pc = "idle", !.ret = "ready"]
             ELSE [wr EXCEPT !.pc = IF distance(wr.head, wr.tail) = pipe.cap
                                    THEN "load1" ELSE "take"]
    /\ UNCHANGED <<pipe, rd, sent, recvd, execVars, handleVars>>

\* `self.head = self.inner.head.load(Acquire)` (first reload) and the test after it.
W_Load1 ==
    /\ wr.pc = "load1"
    /\ wr' = [wr EXCEPT !.head = pipe.head,
                        !.pc = IF distance(pipe.head, wr.tail) = pipe.cap
                               THEN "register" ELSE "take"]
    /\ UNCHANGED <<pipe, rd, sent, recvd, execVars, handleVars>>

\* `self.inner.writer.register(cx.waker())` and the SeqCst fence.
W_Register ==
    /\ wr.pc = "register"
    /\ pipe' = [pipe EXCEPT !.writer = TRUE]
    /\ wr' = [wr EXCEPT !.pc = "load2"]
    /\ UNCHANGED <<rd, sent, recvd, execVars, handleVars>>

\* The reload of the head after registering the waker, and the test after it.
W_Load2 ==
    /\ wr.pc = "load2"
    /\ wr' = [wr EXCEPT !.head = pipe.head,
                        !.pc = IF distance(pipe.head, wr.tail) = pipe.cap
                               THEN "closed" ELSE "take"]
    /\ UNCHANGED <<pipe, rd, sent, recvd, execVars, handleVars>>

\* `self.inner.closed.load(Relaxed)`: Ready(Ok(0)) when closed, else Pending.
W_Closed ==
    /\ wr.pc = "closed"
    /\ wr' = [wr EXCEPT !.pc = "idle", !.ret = IF pipe.closed THEN "ready" ELSE "pending"]
    /\ UNCHANGED <<pipe, rd, sent, recvd, execVars, handleVars>>

\* `self.inner.writer.take()`: the pipe is not full, remove the waker.
W_Take ==
    /\ wr.pc = "take"
    /\ pipe' = [pipe EXCEPT !.writer = FALSE]
    /\ wr' = [wr EXCEPT !.pc = "copy"]
    /\ UNCHANGED <<rd, sent, recvd, execVars, handleVars>>

\* writer_n as it would be without the `cap - distance(self.head, self.tail)`
\* term.
writer_n_no_space_limit ==
    Min(Min(CHUNK_LIMIT, wr.zeroed_until * 2 + ZERO_STEP),
        pipe.cap - real_index(wr.tail))

\* Size of the slice the writer hands to src.read.
writer_n ==
    Min(Min(Min(CHUNK_LIMIT, wr.zeroed_until * 2 + ZERO_STEP),
            pipe.cap - distance(wr.head, wr.tail)),
        pipe.cap - real_index(wr.tail))

\* zero_range as it would be if write_bytes started at the buffer's first byte
\* instead of at `buffer.add(self.zeroed_until)`.
zero_range_from_start(from, n) ==
    IF wr.zeroed_until < from + n THEN 0..(from + n - 1) ELSE {}

\* "Make sure all bytes in the slice are initialized": the positions that
\* write_bytes sets to zero before the slice [from, from + n) is made.
zero_range(from, n) ==
    IF wr.zeroed_until < from + n THEN wr.zeroed_until..(from + n - 1) ELSE {}

\* The buffer after the writer made sure that [from, from + n) is initialized and
\* src.read stored the bytes sent+1 .. sent+k at from.
writer_buffer(from, n, k) ==
    [i \in 0..(pipe.cap - 1) |->
        IF from <= i /\ i < from + k THEN sent + 1 + (i - from)
        ELSE IF i \in zero_range(from, n) THEN 0
        ELSE pipe.buffer[i]]

\* The Writer's fields after one iteration of the copy loop in which src.read
\* returns Ok(k).
writer_after(k) ==
    LET to == real_index(wr.tail) + writer_n
        zeroed == IF wr.zeroed_until < to THEN to ELSE wr.zeroed_until
    IN IF k = 0
       THEN [wr EXCEPT !.pc = "idle", !.ret = "ready", !.zeroed_until = zeroed]
       ELSE [wr EXCEPT !.pc = "store", !.count = @ + k, !.src = @ - k,
                       !.tail = advance(wr.tail, k), !.zeroed_until = zeroed]

\* One iteration of the copy loop in which src.read returns Ok(k): k = 0 ends the
\* poll with Ready(Ok(count)), otherwise the tail moves forward.
writer_copy(k) ==
    /\ wr.pc = "copy"
    /\ k <= writer_n
    /\ pipe' = [pipe EXCEPT !.buffer = writer_buffer(real_index(wr.tail), writer_n, k)]
    /\ wr' = writer_after(k)
    /\ sent' = sent + k
    /\ UNCHANGED <<rd, recvd>>

\* src.read on a source with wr.src bytes left: it gives between one byte and all
\* that fits, and nothing when it is exhausted or the slice is empty.
W_Copy ==
    /\ wr.pc = "copy"
    /\ \E k \in 0..Min(writer_n, wr.src) :
          /\ (k = 0) <=> (Min(writer_n, wr.src) = 0)
          /\ writer_copy(k)
    /\ UNCHANGED <<execVars, handleVars>>

\* `self.inner.tail.store(self.tail, Release)`.
W_Store ==
    /\ wr.pc = "store"
    /\ pipe' = [pipe EXCEPT !.tail = wr.tail]
    /\ wr' = [wr EXCEPT !.pc = "wake"]
    /\ UNCHANGED <<rd, sent, recvd, execVars, handleVars>>

\* `self.inner.reader.wake()`, then the next iteration of the copy loop.
W_Wake ==
    /\ wr.pc = "wake"
    /\ rd' = wake_reader(rd)
    /\ pipe' = [pipe EXCEPT !.reader = FALSE]
    /\ wr' = [wr EXCEPT !.pc = "copy"]
    /\ UNCHANGED <<sent, recvd, execVars, handleVars>>

(* ------------------------------- Drop --------------------------------- *)

\* Drop for Reader, first half: `closed.store(true, SeqCst)`.
reader_drop ==
    /\ rd.alive /\ rd.pc = "idle"
    /\ pipe' = [pipe EXCEPT !.closed = TRUE]
    /\ rd' = [rd EXCEPT !.pc = "drop_wake", !.alive = FALSE]
    /\ UNCHANGED <<wr, sent, recvd>>

\* Drop for Reader, second half: `self.inner.writer.wake()`.
R_DropWake ==
    /\ rd.pc = "drop_wake"
    /\ wr' = wake_writer(wr)
    /\ pipe' = [pipe EXCEPT !.writer = FALSE]
    /\ rd' = [rd EXCEPT !.pc = "dropped"]
    /\ UNCHANGED <<sent, recvd, execVars, handleVars>>

\* Drop for Writer, first half: `closed.store(true, SeqCst)`.
writer_drop ==
    /\ wr.alive /\ wr.pc = "idle"
    /\ pipe' = [pipe EXCEPT !.closed = TRUE]
    /\ wr' = [wr EXCEPT !.pc = "drop_wake", !.alive = FALSE]
    /\ UNCHANGED <<rd, sent, recvd>>

\* Drop for Writer, second half: `self.inner.reader.wake()`.
W_DropWake ==
    /\ wr.pc = "drop_wake"
    /\ rd' = wake_reader(rd)
    /\ pipe' = [pipe EXCEPT !.reader = FALSE]
    /\ wr' = [wr EXCEPT !.pc = "dropped"]
    /\ UNCHANGED <<sent, recvd, execVars, handleVars>>

\* The steps inside poll_read, poll_write and the two drops.
PipeSteps ==
    \/ R_Load1 \/ R_Register \/ R_Load2 \/ R_Closed \/ R_Take \/ R_Copy \/ R_Store
    \/ R_Wake \/ R_DropWake
    \/ W_Closed0 \/ W_Load1 \/ W_Register \/ W_Load2 \/ W_Closed \/ W_Take \/ W_Copy
    \/ W_Store \/ W_Wake \/ W_DropWake

(* ----------------- the owners of a bare pipe's endpoints --------------- *)

\* The reader's task polls: for the first time, after a Ready, or after a wake-up.
R_Poll ==
    /\ rd.ret # "pending" \/ rd.woken
    /\ \E d \in 0..MaxChunk : reader_enter(d)
    /\ UNCHANGED <<execVars, handleVars>>

\* The reader's task polls although nothing woke it.
R_PollSpurious ==
    /\ rd.ret = "pending" /\ ~rd.woken
    /\ \E d \in 0..MaxChunk : reader_enter(d)
    /\ UNCHANGED <<execVars, handleVars>>

\* The writer's task polls: for the first time, after a Ready, or after a wake-up.
W_Poll ==
    /\ wr.ret # "pending" \/ wr.woken
    /\ \E s \in 0..MaxChunk : sent + s <= MaxBytes /\ writer_enter(s)
    /\ UNCHANGED <<execVars, handleVars>>

\* The writer's task polls although nothing woke it.
W_PollSpurious ==
    /\ wr.ret = "pending" /\ ~wr.woken
    /\ \E s \in 0..MaxChunk : sent + s <= MaxBytes /\ writer_enter(s)
    /\ UNCHANGED <<execVars, handleVars>>

R_Drop == reader_drop /\ UNCHANGED <<execVars, handleVars>>
W_Drop == writer_drop /\ UNCHANGED <<execVars, handleVars>>

(***************************************************************************)
(* Blocking<T>: the handle, its blocking task and the caller                *)
(***************************************************************************)
\* Blocking::new(io): State::Idle(Some(io)), no task, no pipe yet.  kind says
\* whether the wrapped value is a byte source (Read) or a byte sink (Write).
handle_new(kind) ==
    /\ state = "Idle"
    /\ inner = TRUE
    /\ task = [kind |-> "none", status |-> "none", res |-> "ok", n |-> 0]
    /\ io = [kind |-> kind, flushed |-> 0, error |-> "none"]
    /\ call = [op |-> "none", len |-> 0, pc |-> "-", from |-> "Idle",
               last |-> "none", ret |-> "none", n |-> 0]
    /\ stream = [queue |-> <<>>, tx |-> FALSE, rx |-> FALSE, next |-> 0, got |-> <<>>]

\* Blocking::spawn(future): the future is spawned onto the executor and the
\* handle starts in State::Task.
handle_spawn ==
    /\ state = "Task"
    /\ inner = FALSE
    /\ task = [kind |-> "future", status |-> "active", res |-> "ok", n |-> 1]
    /\ io = [kind |-> "future", flushed |-> 0, error |-> "none"]
    /\ call = [op |-> "none", len |-> 0, pc |-> "-", from |-> "Task",
               last |-> "none", ret |-> "none", n |-> 0]
    /\ stream = [queue |-> <<>>, tx |-> FALSE, rx |-> FALSE, next |-> 0, got |-> <<>>]

\* The caller's record when its call returns r (and n bytes, or the item n).
Return(r, n) ==
    [call EXCEPT !.op = "none", !.len = 0, !.pc = "-", !.last = call.op,
                 !.ret = r, !.n = n]

\* The calls the wrapped value's kind offers: AsyncWrite::poll_write / poll_flush
\* / poll_close for a sink, AsyncRead::poll_read for a source, Stream::poll_next
\* for an iterator, and poll_stop (get_mut, into_inner, await) for a source, an
\* iterator and a spawned future.  A file is a source and a sink at once: its
\* handle is read and written in turn.
Calls ==
    CASE io.kind = "sink" -> {"poll_write", "poll_flush", "poll_close"}
      [] io.kind = "source" -> {"poll_read", "poll_stop"}
      [] io.kind = "iter" -> {"poll_next", "poll_stop"}
      [] io.kind = "future" -> {"poll_stop"}
      [] io.kind = "file" -> {"poll_read", "poll_write", "poll_stop"}

\* The tasks that have not returned and whose future has not been dropped; a
\* cancelled task stops at the end of the run it is in.
Live == {"active", "cancelled"}

\* The caller enters poll_write / poll_read with a buffer of len bytes, or
\* poll_flush / poll_close / poll_stop / poll_next.
H_Call ==
    /\ call.op = "none" /\ call.ret # "panic" /\ state # "Dropped"
    /\ \E op \in Calls, len \in 0..MaxChunk :
          /\ op \notin {"poll_write", "poll_read"} => len = 0
          /\ op = "poll_write" => sent + len <= MaxBytes
          /\ call' = [call EXCEPT !.op = op, !.len = len, !.pc = "match", !.from = state]
    /\ UNCHANGED <<state, inner, task, io, stream, pipeVars, execVars>>

\* `State::Idle(io)` arm of poll_read / poll_write: take the value out, create
\* the pipe, spawn the task, move into the busy state and poll again.
start_task(kind, busy) ==
    /\ task.n < MaxSessions
    /\ inner' = FALSE
    /\ pipe' = NewPipe(pipe.cap)
    /\ rd' = NewReader
    /\ wr' = NewWriter
    /\ task' = [kind |-> kind, status |-> "active", res |-> "ok", n |-> task.n + 1]
    /\ state' = busy
    /\ UNCHANGED <<call, io, stream, sent, recvd>>

\* start_stream as it would be if the new task sent into the channel of the task
\* before it.
start_stream_keeps_queue ==
    /\ task.n < MaxSessions
    /\ inner' = FALSE
    /\ stream' = [stream EXCEPT !.tx = TRUE, !.rx = TRUE]
    /\ task' = [kind |-> "streaming", status |-> "active", res |-> "ok", n |-> task.n + 1]
    /\ state' = "Streaming"
    /\ UNCHANGED <<call, io, pipeVars>>

\* `State::Idle(iter)` arm of poll_next: take the iterator out, create the
\* channel, spawn the task, move into State::Streaming and poll again.
start_stream ==
    /\ task.n < MaxSessions
    /\ inner' = FALSE
    /\ stream' = [stream EXCEPT !.queue = <<>>, !.tx = TRUE, !.rx = TRUE]
    /\ task' = [kind |-> "streaming", status |-> "active", res |-> "ok", n |-> task.n + 1]
    /\ state' = "Streaming"
    /\ UNCHANGED <<call, io, pipeVars>>

\* join_task as it would be if the state were left as it is when the task's
\* output is taken.
join_task_no_idle(okcall) ==
    CASE task.status = "active" ->
             /\ call' = Return("pending", 0)
             /\ UNCHANGED <<state, inner, task>>
      [] task.status = "failed" ->
             /\ call' = Return("panic", 0)
             /\ UNCHANGED <<state, inner, task>>
      [] task.status = "done" ->
             /\ call' = IF task.res = "err" THEN Return("err", 0) ELSE Return("ok", 0)
             /\ UNCHANGED <<state, inner, task>>

\* join_task as it would be if `res?` came before `self.0 = State::Idle(Some(io))`.
join_task_error_first(okcall) ==
    CASE task.status = "active" ->
             /\ call' = Return("pending", 0)
             /\ UNCHANGED <<state, inner, task>>
      [] task.status = "failed" ->
             /\ call' = Return("panic", 0)
             /\ UNCHANGED <<state, inner, task>>
      [] task.status = "done" ->
             IF task.res = "err"
             THEN /\ call' = Return("err", 0)
                  /\ UNCHANGED <<state, inner, task>>
             ELSE /\ state' = "Idle"
                  /\ inner' = TRUE
                  /\ task' = [task EXCEPT !.status = "none"]
                  /\ call' = okcall

\* Task::poll through futures::ready!: Pending while the task runs; its output
\* when it is done; a failed task makes `output.expect("task has failed")` panic.
\* With the output (res, io) the state becomes Idle(Some(io)) before `res?`.
join_task(okcall) ==
    CASE task.status = "active" ->
             /\ call' = Return("pending", 0)
             /\ UNCHANGED <<state, inner, task>>
      [] task.status = "failed" ->
             /\ call' = Return("panic", 0)
             /\ UNCHANGED <<state, inner, task>>
      [] task.status = "done" ->
             /\ state' = "Idle"
             /\ inner' = TRUE
             /\ task' = [task EXCEPT !.status = "none"]
             /\ call' = IF task.res = "err" THEN Return("err", 0) ELSE okcall

\* stream_recv as it would be if the receiver gave the newest item of the channel
\* instead of the oldest.
stream_recv_newest ==
    IF stream.queue # <<>>
    THEN /\ stream' = [stream EXCEPT !.queue = SubSeq(@, 1, Len(@) - 1),
                                     !.got = Append(@, stream.queue[Len(stream.queue)])]
         /\ call' = Return("ok", stream.queue[Len(stream.queue)])
         /\ UNCHANGED <<state, inner, task>>
    ELSE /\ UNCHANGED stream
         /\ IF stream.tx
            THEN call' = Return("pending", 0) /\ UNCHANGED <<state, inner, task>>
            ELSE join_task(Return("end", 0))

\* `State::Streaming(Some(any), task)` arm of poll_next: poll the receiver; it
\* gives the oldest item, Pending while the channel is empty and the sender
\* lives, and None once the sender is dropped and the channel is empty; on None
\* the task is polled to get the iterator back.
stream_recv ==
    IF stream.queue # <<>>
    THEN /\ stream' = [stream EXCEPT !.queue = Tail(@), !.got = Append(@, Head(stream.queue))]
         /\ call' = Return("ok", Head(stream.queue))
         /\ UNCHANGED <<state, inner, task>>
    ELSE /\ UNCHANGED stream
         /\ IF stream.tx
            THEN call' = Return("pending", 0) /\ UNCHANGED <<state, inner, task>>
            ELSE join_task(Return("end", 0))

\* drive_stop as it would be if the handle took itself for Idle, without waiting
\* for the task it has.
drive_stop_skipped ==
    /\ state' = "Idle"
    /\ inner' = TRUE
    /\ UNCHANGED <<call, task, io, stream, pipeVars>>

\* The arm of poll_read / poll_write / poll_next / poll_close for a state that
\* is not Idle and does not hold the call's own endpoint: "stop the running
\* task", `ready!(self.poll_stop(cx))?`, before the loop looks at the state
\* again.
drive_stop ==
    /\ call' = [call EXCEPT !.pc = "stop"]
    /\ UNCHANGED <<state, inner, task, io, stream, pipeVars>>

\* poll_close_idle as it would be if poll_close left the value in the slot.
poll_close_idle_keeps_value ==
    /\ call' = Return("ok", 0)
    /\ UNCHANGED <<state, inner, task, io, stream, pipeVars>>

\* poll_close once poll_flush is Ready(Ok(())): `self.0 = State::Idle(None)`, which
\* drops the value, then Ready(Ok(())).
poll_close_idle ==
    /\ call' = Return("ok", 0)
    /\ inner' = FALSE
    /\ UNCHANGED <<state, task, io, stream, pipeVars>>

\* The `match &mut self.0` at the head of the loop of poll_write, poll_read,
\* poll_next, poll_flush and poll_close (and the Idle arm of poll_stop for a bare
\* poll_stop).  poll_close, once poll_flush is Ready(Ok), moves to Idle(None).
H_Match ==
    /\ call.pc = "match"
    /\ CASE call.op \in {"poll_flush", "poll_stop"} ->
               /\ call' = IF state = "Idle" THEN Return("ok", 0)
                                            ELSE [call EXCEPT !.pc = "stop"]
               /\ UNCHANGED <<state, inner, task, io, stream, pipeVars>>
         [] call.op = "poll_close" ->
               IF state = "Idle"
               THEN poll_close_idle
               ELSE drive_stop
         [] call.op = "poll_write" ->
               IF state = "Idle"
               THEN IF inner THEN start_task("writing", "Writing")
                    ELSE /\ call' = Return("panic", 0)
                         /\ UNCHANGED <<state, inner, task, io, stream, pipeVars>>
               ELSE IF state = "Writing" /\ wr.alive
               THEN /\ writer_enter(call.len)
                    /\ call' = [call EXCEPT !.pc = "pipe"]
                    /\ UNCHANGED <<state, inner, task, io, stream>>
               ELSE drive_stop
         [] call.op = "poll_read" ->
               IF state = "Idle"
               THEN IF inner THEN start_task("reading", "Reading")
                    ELSE /\ call' = Return("panic", 0)
                         /\ UNCHANGED <<state, inner, task, io, stream, pipeVars>>
               ELSE IF state = "Reading" /\ rd.alive
               THEN /\ reader_enter(call.len)
                    /\ call' = [call EXCEPT !.pc = "pipe"]
                    /\ UNCHANGED <<state, inner, task, io, stream>>
               ELSE drive_stop
         [] call.op = "poll_next" ->
               IF state = "Idle"
               THEN IF inner THEN start_stream
                    ELSE /\ call' = Return("panic", 0)
                         /\ UNCHANGED <<state, inner, task, io, stream, pipeVars>>
               ELSE IF state = "Streaming" /\ stream.rx
               THEN /\ stream_recv
                    /\ UNCHANGED <<io, pipeVars>>
               ELSE drive_stop
    /\ UNCHANGED execVars

\* poll_stop, the head of its loop: Idle is Ready(Ok(())); in Reading / Writing
\* the caller's endpoint is taken out of the state and dropped (closing the pipe),
\* in Streaming the receiver is dropped (closing the channel); then the task is
\* polled.
H_Stop ==
    /\ call.pc = "stop"
    /\ CASE state = "Idle" ->
               /\ call' = [call EXCEPT !.pc = "match"]
               /\ UNCHANGED <<stream, pipeVars>>
         [] state = "Reading" ->
               /\ call' = [call EXCEPT !.pc = "stop_join"]
               /\ IF rd.alive THEN reader_drop ELSE UNCHANGED pipeVars
               /\ UNCHANGED stream
         [] state = "Writing" ->
               /\ call' = [call EXCEPT !.pc = "stop_join"]
               /\ IF wr.alive THEN writer_drop ELSE UNCHANGED pipeVars
               /\ UNCHANGED stream
         [] state = "Streaming" ->
               /\ call' = [call EXCEPT !.pc = "stop_join"]
               /\ stream' = [stream EXCEPT !.rx = FALSE]
               /\ UNCHANGED pipeVars
         [] state = "Task" ->
               /\ call' = [call EXCEPT !.pc = "stop_join"]
               /\ UNCHANGED <<stream, pipeVars>>
    /\ UNCHANGED <<state, inner, task, io, execVars>>

\* poll_stop after the endpoint is dropped: poll the task.
H_StopJoin ==
    /\ call.pc = "stop_join"
    /\ rd.pc # "drop_wake" /\ wr.pc # "drop_wake"
    /\ join_task([call EXCEPT !.pc = "stop"])
    /\ UNCHANGED <<io, stream, pipeVars, execVars>>

\* The endpoint's poll has returned to poll_write / poll_read.  poll_write hands
\* the result on.  poll_read hands Pending and Ok(n > 0) on; on Ok(0) it polls the
\* task to get the value back.
H_PipeDone ==
    /\ call.pc = "pipe"
    /\ IF call.op = "poll_write"
       THEN /\ wr.pc = "idle"
            /\ call' = IF wr.ret = "pending" THEN Return("pending", 0)
                                             ELSE Return("ok", wr.count)
            /\ UNCHANGED <<state, inner, task>>
       ELSE /\ rd.pc = "idle"
            /\ IF rd.ret = "pending"
               THEN call' = Return("pending", 0) /\ UNCHANGED <<state, inner, task>>
               ELSE IF rd.count > 0
               THEN call' = Return("ok", rd.count) /\ UNCHANGED <<state, inner, task>>
               ELSE join_task(Return("ok", 0))
    /\ UNCHANGED <<io, stream, pipeVars, execVars>>

\* The handle is dropped between two calls: the caller's endpoint of the pipe or
\* of the channel is dropped with the state, and Drop for Task cancels the task.
H_Drop ==
    /\ call.op = "none" /\ call.ret # "panic" /\ state # "Dropped"
    /\ state' = "Dropped"
    /\ inner' = FALSE
    /\ task' = IF task.status = "active" THEN [task EXCEPT !.status = "cancelled"] ELSE task
    /\ CASE state = "Reading" /\ rd.alive -> reader_drop /\ UNCHANGED stream
         [] state = "Writing" /\ wr.alive -> writer_drop /\ UNCHANGED stream
         [] state = "Streaming" -> stream' = [stream EXCEPT !.rx = FALSE] /\ UNCHANGED pipeVars
         [] OTHER -> UNCHANGED <<stream, pipeVars>>
    /\ UNCHANGED <<io, call, execVars>>

\* A worker runs the task's runnable: the task polls its endpoint of the pipe, for
\* the first time, after Ok(n > 0), or after a wake-up.  The reading task copies
\* from the value into the Writer, the writing task from the Reader into the
\* value.  A cancelled task polls on only inside the run it is in.
T_Poll ==
    /\ task.status \in Live
    /\ CASE task.kind = "reading" ->
               /\ wr.ret = "none" \/ (wr.ret = "ready" /\ wr.count > 0)
                  \/ (wr.ret = "pending" /\ wr.woken /\ task.status = "active")
               /\ writer_enter(MaxBytes - sent)
         [] task.kind = "writing" ->
               /\ rd.ret = "none" \/ (rd.ret = "ready" /\ rd.count > 0)
                  \/ (rd.ret = "pending" /\ rd.woken /\ task.status = "active")
               /\ reader_enter(MaxBytes)
         [] OTHER -> FALSE
    /\ UNCHANGED <<handleVars, execVars>>

\* The `Ok(0)` arm of the task's loop.  The reading task returns (Ok(()), io);
\* the writing task returns (io.flush(), io), and the flush succeeds or fails.
\* The task's endpoint is dropped with the future.
T_Return ==
    /\ task.status \in Live
    /\ \E res \in {"ok", "err"} :
          CASE task.kind = "reading" ->
               /\ wr.pc = "idle" /\ wr.ret = "ready" /\ wr.count = 0
               /\ res = "ok"
               /\ task' = [task EXCEPT !.status = "done", !.res = res]
               /\ writer_drop
               /\ UNCHANGED io
            [] task.kind = "writing" ->
               /\ rd.pc = "idle" /\ rd.ret = "ready" /\ rd.count = 0
               /\ task' = [task EXCEPT !.status = "done", !.res = res]
               /\ io' = [io EXCEPT !.flushed = Len(recvd)]
               /\ reader_drop
            [] OTHER -> FALSE
    /\ UNCHANGED <<state, inner, call, stream, execVars>>

\* The wrapped value returns an I/O error inside the copy loop: `src.read(..)`
\* in Writer::poll_write (reading task) or `dest.write(..)` in Reader::poll_read
\* (writing task).  `.expect(..)` panics, the task fails, and the future is
\* dropped with its endpoint and the wrapped value.
T_IoError ==
    /\ task.status \in Live
    /\ CASE task.kind = "reading" ->
            /\ wr.pc = "copy"
            /\ io' = [io EXCEPT !.error = "read"]
            /\ pipe' = [pipe EXCEPT !.closed = TRUE]
            /\ wr' = [wr EXCEPT !.pc = "drop_wake", !.alive = FALSE]
            /\ UNCHANGED rd
         [] task.kind = "writing" ->
            /\ rd.pc = "copy"
            /\ io' = [io EXCEPT !.error = "write"]
            /\ pipe' = [pipe EXCEPT !.closed = TRUE]
            /\ rd' = [rd EXCEPT !.pc = "drop_wake", !.alive = FALSE]
            /\ UNCHANGED wr
         [] OTHER -> FALSE
    /\ task' = [task EXCEPT !.status = "failed"]
    /\ UNCHANGED <<state, inner, call, stream, sent, recvd, execVars>>

\* The runnable of a cancelled task is run, or its run comes to an end: the
\* future is dropped without being polled again, and with it the task's endpoint
\* and the wrapped value.
T_Cancelled ==
    /\ task.status = "cancelled"
    /\ CASE task.kind = "reading" -> wr.pc = "idle" /\ writer_drop /\ UNCHANGED stream
         [] task.kind = "writing" -> rd.pc = "idle" /\ reader_drop /\ UNCHANGED stream
         [] task.kind = "streaming" ->
               stream' = [stream EXCEPT !.tx = FALSE] /\ UNCHANGED pipeVars
         [] OTHER -> UNCHANGED <<stream, pipeVars>>
    /\ task' = [task EXCEPT !.status = "dropped"]
    /\ UNCHANGED <<state, inner, io, call, execVars>>

\* One turn of `for item in &mut iter { if sender.send(item).await.is_err() ..`
\* in the streaming task: the iterator yields its next item and the item is put
\* into the channel; when the receiver is gone (send fails) or the iterator is
\* at its end, the loop is left and the sender dropped.
T_Send ==
    /\ task.kind = "streaming" /\ task.status \in Live
    /\ stream.tx
    /\ IF stream.next < MaxItems
       THEN IF stream.rx
            THEN /\ Len(stream.queue) < CHANNEL_CAP
                 /\ stream' = [stream EXCEPT !.next = @ + 1,
                                             !.queue = Append(@, stream.next + 1)]
            ELSE stream' = [stream EXCEPT !.next = @ + 1, !.tx = FALSE]
       ELSE stream' = [stream EXCEPT !.tx = FALSE]
    /\ UNCHANGED <<state, inner, task, io, call, pipeVars, execVars>>

\* The streaming task returns the iterator.
T_StreamDone ==
    /\ task.kind = "streaming" /\ task.status \in Live
    /\ ~stream.tx
    /\ task' = [task EXCEPT !.status = "done"]
    /\ UNCHANGED <<state, inner, io, call, stream, pipeVars, execVars>>

\* The future given to Blocking::spawn completes, or panics.
T_FutureDone ==
    /\ task.kind = "future" /\ task.status \in Live
    /\ \E st \in {"done", "failed"} : task' = [task EXCEPT !.status = st]
    /\ UNCHANGED <<state, inner, io, call, stream, pipeVars, execVars>>

HandleNext == PipeSteps \/ H_Call \/ H_Match \/ H_Stop \/ H_StopJoin \/ H_PipeDone
              \/ H_Drop \/ T_Poll \/ T_Return \/ T_IoError \/ T_Cancelled
              \/ T_Send \/ T_StreamDone \/ T_FutureDone

ExecInit ==
    /\ idle_count = 0
    /\ thread_count = 0
    /\ queue = <<>>
    /\ starting = 0
    /\ waiting = 0
    /\ running = [r \in RunnableIds |-> 0]
    /\ caught = 0
    /\ submits = 0
    /\ locked = FALSE

\* Executor::spawn by any caller, or a wake-up of a suspended task: the runnable
\* is scheduled.
Schedule == (\E r \in RunnableIds : schedule(r)) /\ UNCHANGED submits

\* The same, by callers that have a finite number of submissions to make.
Submit == submits > 0 /\ (\E r \in RunnableIds : schedule(r)) /\ submits' = submits - 1
Finish == \E r \in RunnableIds : WorkerFinish(r)
Wake == \E t \in BOOLEAN : WorkerWake(t)

ExecNext == Schedule \/ WorkerStart \/ Finish \/ Wake

(***************************************************************************)
(* Specifications                                                          *)
(***************************************************************************)
\* No pipe has been created.
no_pipe == pipe = <<>> /\ rd = <<>> /\ wr = <<>> /\ sent = 0 /\ recvd = <<>>

\* No handle has been created.
no_handle ==
    /\ state = "Idle" /\ inner = FALSE /\ task = <<>> /\ io = <<>> /\ call = <<>>
    /\ stream = <<>>

\* The executor under a flood of submissions.
InitExec == ExecInit /\ no_pipe /\ no_handle
SpecExec == InitExec /\ [][ExecNext]_vars

\* The executor under a flood, with every thread running on: a runnable that
\* starts returns, a wait on the condition variable ends by notification or by
\* its timeout.  The blocking calls return one after the other, so that few
\* workers wait at the same time.
FinishPaced == waiting < MaxWaiting /\ Finish
FairNext == Schedule \/ WorkerStart \/ FinishPaced \/ Wake
SpecExecFair ==
    /\ InitExec /\ [][FairNext]_vars
    /\ WF_vars(WorkerStart) /\ WF_vars(FinishPaced) /\ WF_vars(Wake)

\* The executor when the submissions come to an end: MaxSubmit of them are made.
InitDrain ==
    /\ idle_count = 0 /\ thread_count = 0 /\ queue = <<>>
    /\ starting = 0 /\ waiting = 0 /\ running = [r \in RunnableIds |-> 0]
    /\ caught = 0
    /\ submits = MaxSubmit
    /\ locked = FALSE
    /\ no_pipe /\ no_handle
DrainNext == Submit \/ WorkerStart \/ Finish \/ Wake
SpecExecDrain ==
    /\ InitDrain /\ [][DrainNext]_vars
    /\ WF_vars(WorkerStart) /\ WF_vars(Finish) /\ WF_vars(Wake)

\* The executor in a burst of MaxBurst submissions that the queue takes whole,
\* starting from an empty pool or from a pool that is MaxBurstRoom threads below
\* its cap, with each of its threads in a blocking call.
InitBurst ==
    /\ \E t \in {0, MAX_THREADS - MaxBurstRoom} :
          /\ thread_count = t
          /\ running = [r \in RunnableIds |-> IF r = 0 THEN t ELSE 0]
    /\ idle_count = 0 /\ queue = <<>>
    /\ starting = 0 /\ waiting = 0 /\ caught = 0
    /\ submits = MaxBurst
    /\ locked = FALSE
    /\ no_pipe /\ no_handle
BurstSubmit == submits > 0 /\ enqueue(0) /\ submits' = submits - 1
BurstNext == BurstSubmit \/ WorkerStart \/ FinishPaced \/ Wake
SpecExecBurst == InitBurst /\ [][BurstNext]_vars

\* The executor when some of the runnables panic.
Panic == \E r \in RunnableIds : WorkerPanic(r)
PanicNext == Submit \/ WorkerStart \/ Finish \/ Wake \/ Panic \/ WorkerRelock
SpecExecPanic == InitDrain /\ [][PanicNext]_vars

\* One handle, its task run by the workers of the executor (runnable 1), and
\* other callers' runnables (runnable 0).  The caller makes one call and drops
\* the handle, at any moment after or instead of the call.
InitCancel ==
    /\ \/ /\ ExecInit
          /\ \E kind \in {"source", "sink", "iter"} : handle_new(kind)
       \/ /\ handle_spawn
          /\ idle_count = 1 /\ thread_count = 1 /\ queue = <<1>> /\ starting = 1
          /\ waiting = 0 /\ running = [r \in RunnableIds |-> 0] /\ caught = 0
          /\ submits = 0 /\ locked = FALSE
    /\ \E c \in 1..MaxCap : pipe = NewPipe(c)
    /\ rd = [NewReader EXCEPT !.pc = "dropped", !.alive = FALSE]
    /\ wr = [NewWriter EXCEPT !.pc = "dropped", !.alive = FALSE]
    /\ sent = 0
    /\ recvd = <<>>

\* The caller's one call.
H_CallOnce == call.last = "none" /\ H_Call

\* The task's runnable is scheduled: by Executor::spawn, by a wake-up of the
\* suspended task, or by the cancellation of the suspended task.
T_Schedule == task.status \in Live /\ schedule(1) /\ UNCHANGED submits

\* Another caller submits a runnable.
SubmitOther == submits < MaxOther /\ schedule(0) /\ submits' = submits + 1

\* The runnable of another caller returns.
FinishOther == WorkerFinish(0)

\* The steps of the task, made by the worker that runs its runnable.
C_Poll == running[1] > 0 /\ T_Poll
C_Return == running[1] > 0 /\ T_Return
C_Send == running[1] > 0 /\ T_Send
C_StreamDone == running[1] > 0 /\ T_StreamDone
C_FutureDone == running[1] > 0 /\ T_FutureDone
C_Cancelled == running[1] > 0 /\ T_Cancelled

\* The task is not inside a poll or a drop of its endpoint of the pipe.
TaskAtRest ==
    CASE task.kind = "reading" -> wr.pc \in {"idle", "dropped"}
      [] task.kind = "writing" -> rd.pc \in {"idle", "dropped"}
      [] OTHER -> TRUE

\* The task's future returned Pending from its last poll.
TaskSuspends ==
    /\ task.status = "active"
    /\ CASE task.kind = "reading" -> wr.ret = "pending"
         [] task.kind = "writing" -> rd.ret = "pending"
         [] task.kind = "streaming" -> FALSE
         [] OTHER -> TRUE

\* T_RunEnd as it would be if the worker that ran a cancelled task stopped
\* instead of going on with the task loop.
T_RunEndWorkerStops ==
    /\ running[1] > 0
    /\ TaskAtRest
    /\ task.status \in {"done", "failed", "dropped"} \/ TaskSuspends
    /\ IF task.status = "dropped"
       THEN /\ running' = [running EXCEPT ![1] = @ - 1]
            /\ UNCHANGED <<idle_count, thread_count, queue, starting, waiting, locked>>
            /\ UNCHANGED <<caught, submits, pipeVars, handleVars>>
       ELSE WorkerFinish(1)

\* runnable.run() of the task's runnable returns: the future returned Pending,
\* or it completed, or it was dropped; the worker goes on with the task loop.
T_RunEnd ==
    /\ running[1] > 0
    /\ TaskAtRest
    /\ task.status \in {"done", "failed", "dropped"} \/ TaskSuspends
    /\ WorkerFinish(1)

CancelNext ==
    PipeSteps \/ H_CallOnce \/ H_Match \/ H_Stop \/ H_StopJoin \/ H_PipeDone \/ H_Drop
    \/ T_Schedule \/ SubmitOther \/ WorkerStart \/ FinishOther \/ Wake
    \/ C_Poll \/ C_Return \/ C_Send \/ C_StreamDone \/ C_FutureDone \/ C_Cancelled
    \/ T_RunEnd
SpecCancel == InitCancel /\ [][CancelNext]_vars

\* One pipe, its two endpoints polled and dropped by two tasks.
InitPipe == ExecInit /\ no_handle /\ \E c \in 1..MaxCap : pipe_new(c)
PipeNext == PipeSteps \/ R_Poll \/ R_PollSpurious \/ W_Poll \/ W_PollSpurious \/ R_Drop \/ W_Drop
SpecPipe == InitPipe /\ [][PipeNext]_vars

\* One handle around a byte source or a byte sink, its caller and its tasks.
InitHandle ==
    /\ ExecInit
    /\ \/ \E kind \in {"source", "sink", "iter"} : handle_new(kind)
       \/ handle_spawn
    /\ \E c \in 1..MaxCap : pipe = NewPipe(c)
    /\ rd = [NewReader EXCEPT !.pc = "dropped", !.alive = FALSE]
    /\ wr = [NewWriter EXCEPT !.pc = "dropped", !.alive = FALSE]
    /\ sent = 0
    /\ recvd = <<>>
SpecHandle == InitHandle /\ [][HandleNext]_vars

\* One handle around a value that is read and written in turn (a file), on the
\* smallest ring.
InitDuplex ==
    /\ ExecInit
    /\ handle_new("file")
    /\ pipe = NewPipe(1)
    /\ rd = [NewReader EXCEPT !.pc = "dropped", !.alive = FALSE]
    /\ wr = [NewWriter EXCEPT !.pc = "dropped", !.alive = FALSE]
    /\ sent = 0
    /\ recvd = <<>>
DuplexNext ==
    PipeSteps \/ H_Call \/ H_Match \/ H_Stop \/ H_StopJoin \/ H_PipeDone \/ H_Drop
    \/ T_Poll \/ T_Return \/ T_IoError \/ T_Cancelled
SpecDuplex == InitDuplex /\ [][DuplexNext]_vars

\* One handle around an iterator of MaxItems items, its caller and its tasks.
InitStream ==
    /\ ExecInit
    /\ handle_new("iter")
    /\ pipe = NewPipe(1)
    /\ rd = [NewReader EXCEPT !.pc = "dropped", !.alive = FALSE]
    /\ wr = [NewWriter EXCEPT !.pc = "dropped", !.alive = FALSE]
    /\ sent = 0
    /\ recvd = <<>>
StreamNext == H_Call \/ H_Match \/ H_Stop \/ H_StopJoin \/ H_Drop
              \/ T_Cancelled \/ T_Send \/ T_StreamDone
SpecStream == InitStream /\ [][StreamNext]_vars

\* The same, with the threads of both endpoints never stopped for good and every
\* woken task polled again.
ReaderSteps ==
    R_Load1 \/ R_Register \/ R_Load2 \/ R_Closed \/ R_Take \/ R_Copy \/ R_Store \/ R_Wake
    \/ R_DropWake
WriterSteps ==
    W_Closed0 \/ W_Load1 \/ W_Register \/ W_Load2 \/ W_Closed \/ W_Take \/ W_Copy
    \/ W_Store \/ W_Wake \/ W_DropWake
SpecPipeFair ==
    /\ InitPipe /\ [][PipeNext]_vars
    /\ WF_vars(ReaderSteps) /\ WF_vars(WriterSteps)
    /\ WF_vars(R_Poll) /\ WF_vars(W_Poll)

(***************************************************************************)
(* Claims                                                                  *)
(***************************************************************************)
\* The reader's task is parked: its last poll returned Pending and nothing has
\* woken it since.
ReaderParked == rd.alive /\ rd.pc = "idle" /\ rd.ret = "pending" /\ ~rd.woken
WriterParked == wr.alive /\ wr.pc = "idle" /\ wr.ret = "pending" /\ ~wr.woken

\* C1: the bytes the reader copied out are a prefix of the bytes the writer copied
\* in (byte i has value i): nothing duplicated, skipped or reordered.
C1_ByteFidelity ==
    /\ Len(recvd) <= sent
    /\ \A i \in 1..Len(recvd) : recvd[i] = i

\* C1 witness: with the largest capacity, both indices have wrapped at 2*cap and
\* every byte has come out.
C1_Witness ==
    /\ pipe.cap = MaxCap
    /\ Len(recvd) > 2 * pipe.cap
    /\ rd.head < pipe.cap

\* C2: once the Writer is dropped, a poll_read with room in its destination
\* returns Ready(Ok(0)) only when every byte copied into the pipe has been read.
C2_CloseDrains ==
    (/\ ~wr.alive
     /\ rd.pc = "idle" /\ rd.ret = "ready" /\ rd.count = 0 /\ rd.dest > 0)
    => Len(recvd) = sent

\* C3: when a poll_flush entered in the Writing state returns Ready(Ok), every
\* byte poll_write accepted has been written to the sink, the sink was flushed
\* after the last of them, and the handle is Idle holding the sink.
C3_FlushWritesAll ==
    (/\ call.op = "none" /\ call.last = "poll_flush" /\ call.ret = "ok"
     /\ call.from = "Writing")
    => (/\ Len(recvd) = sent
        /\ io.flushed = Len(recvd)
        /\ state = "Idle" /\ inner)

\* C4: after the byte source returned an I/O error from read, the reading task
\* has not failed (it returns (Err, value)) and the caller's call does not panic.
C4_ReadErrorReturned ==
    io.error = "read" => (task.status # "failed" /\ call.ret # "panic")

\* C5: after the byte sink returned an I/O error from write, the writing task
\* has not failed (it flushes and returns (Err, sink)) and the caller's call does
\* not panic.
C5_WriteErrorReturned ==
    io.error = "write" => (task.status # "failed" /\ call.ret # "panic")

\* C6: thread_count never exceeds 500, and neither does the number of threads
\* the pool has spawned and not yet seen exit.
C6_ThreadCap ==
    /\ thread_count <= MAX_THREADS
    /\ starting + waiting + running[0] + running[1] <= MAX_THREADS

\* C6 witness: the pool is at 500 threads, none idle, and a runnable is queued,
\* so only the cap keeps grow_pool from spawning.
C6_Witness ==
    /\ thread_count = MAX_THREADS
    /\ Len(queue) > idle_count * GROW_FACTOR

\* The observed runnable is in the queue.
Queued1 == \E i \in 1..Len(queue) : queue[i] = 1

C8_PoolShrinks == <>[](thread_count = 0 /\ idle_count = 0)

\* C8 witness: every submission was made, the pool had grown, and it is empty
\* again.
C8_Witness ==
    /\ submits = 0 /\ queue = <<>>
    /\ thread_count = 0 /\ idle_count = 0
    /\ starting + waiting + running[0] + running[1] = 0

\* C9: no lost wakeup on the reader side: while the reader's task is parked and
\* a published byte is unread, the reader's waker is still registered and the
\* writer is at the wake that follows its tail store.
C9_NoLostWakeup ==
    (ReaderParked /\ pipe.tail # rd.head) => (pipe.reader /\ wr.pc = "wake")

\* C9 witness: the reader returned Pending, the writer has published a byte and
\* is about to wake the registered waker.
C9_Witness ==
    ReaderParked /\ pipe.tail # rd.head /\ pipe.reader /\ wr.pc = "wake"

\* The parked endpoint whose counterpart has made room / data or closed the pipe.
ReaderHasWork ==
    /\ rd.alive /\ rd.pc = "idle" /\ rd.ret = "pending"
    /\ pipe.tail # rd.head \/ pipe.closed
WriterHasWork ==
    /\ wr.alive /\ wr.pc = "idle" /\ wr.ret = "pending"
    /\ distance(pipe.head, wr.tail) < pipe.cap \/ pipe.closed
ReaderReady == ~rd.alive \/ (rd.pc = "idle" /\ rd.ret = "ready")
WriterReady == ~wr.alive \/ (wr.pc = "idle" /\ wr.ret = "ready")

\* C10: an endpoint whose poll returned Pending has its waker registered until
\* it is woken, and once the counterpart has published (or has been dropped) the
\* endpoint is woken and a later poll of it returns Ready.
C10_NeverLeftPending ==
    /\ [](ReaderParked => pipe.reader)
    /\ [](WriterParked => pipe.writer)
    /\ ReaderHasWork ~> ReaderReady
    /\ WriterHasWork ~> WriterReady

\* C10 witness: poll_write returned Pending on a full ring and the writer's
\* waker is registered.
C10_Witness ==
    WriterParked /\ pipe.writer /\ distance(pipe.head, wr.tail) = pipe.cap

\* The step in which poll_stop returns Ready: Ready(Ok) from its Idle arm, to the
\* caller or to the poll_flush / poll_close / poll_read / poll_next that called
\* it, or Ready(Err) through `res?`.
PollStopReady ==
    \/ call.pc = "stop" /\ call'.pc = "match"
    \/ call.pc = "stop_join" /\ call'.op = "none" /\ call'.ret = "err"
    \/ call.pc = "match" /\ call.op = "poll_stop" /\ call'.op = "none" /\ call'.ret = "ok"

\* C11: whenever poll_stop returns Ready, with Ok or with Err, the state is Idle,
\* and when the call was entered in Task, Streaming, Reading or Writing the idle
\* slot holds the value the task returned.
C11_StopLeavesIdle ==
    [][PollStopReady => (state' = "Idle" /\ (call.from # "Idle" => inner'))]_vars

\* C11 witness: poll_stop, entered in the Writing state, has returned the task's
\* error and the handle is Idle holding the sink.
C11_Witness ==
    /\ call.op = "none" /\ call.ret = "err" /\ call.from = "Writing"
    /\ state = "Idle" /\ inner

C13_ReadsWholeSource ==
    (/\ io.kind = "source" /\ task.n = 1 /\ state # "Dropped"
     /\ call.op = "none" /\ call.last = "poll_read" /\ call.ret = "ok" /\ call.n = 0
     /\ rd.dest > 0)
    => (/\ sent = MaxBytes
        /\ Len(recvd) = MaxBytes
        /\ \A i \in 1..Len(recvd) : recvd[i] = i
        /\ state = "Idle" /\ inner)

\* C14: the bytes the writing task has written to the sink are at every moment
\* a prefix of the bytes the handle's poll_write calls took (byte i has value
\* i), also after the handle is dropped, and when poll_close has returned
\* Ready(Ok) the sink has got every one of them.
C14_SinkGetsPrefix ==
    io.kind = "sink"
    => (/\ Len(recvd) <= sent
        /\ \A i \in 1..Len(recvd) : recvd[i] = i
        /\ (call.op = "none" /\ call.last = "poll_close" /\ call.ret = "ok")
              => Len(recvd) = sent)

\* C15: consumed through poll_next only (the first streaming task, handle not
\* dropped), the items come out in the iterator's order, and when poll_next
\* returns None all MaxItems items have come out, the task has completed and its
\* output is taken, and the handle is Idle holding the iterator.
C15_StreamInOrder ==
    (io.kind = "iter" /\ task.n <= 1 /\ state # "Dropped")
    => (/\ \A i \in 1..Len(stream.got) : stream.got[i] = i
        /\ (call.op = "none" /\ call.last = "poll_next" /\ call.ret = "end")
              => (/\ Len(stream.got) = MaxItems
                  /\ state = "Idle" /\ inner /\ task.status = "none"))

\* C15 witness: poll_next has returned None after all the items.
C15_Witness ==
    /\ io.kind = "iter" /\ task.n = 1 /\ state = "Idle"
    /\ call.op = "none" /\ call.last = "poll_next" /\ call.ret = "end"
    /\ Len(stream.got) = MaxItems

\* The bytes behind the published tail, and the bytes before the published head.
Published == sent - distance(pipe.tail, wr.tail)
Consumed == Len(recvd) - distance(pipe.head, rd.head)

\* C16: the published head and tail are indices below 2*cap, and the distance
\* from head to tail is the number of published bytes not yet consumed, between
\* 0 (none) and cap (a full ring).
C16_DistanceInvariant ==
    /\ pipe.head \in 0..(2 * pipe.cap - 1)
    /\ pipe.tail \in 0..(2 * pipe.cap - 1)
    /\ distance(pipe.head, pipe.tail) \in 0..pipe.cap
    /\ distance(pipe.head, pipe.tail) = Published - Consumed

\* C16 witness: on the largest ring one poll_read has copied out cap bytes (the
\* ring was full when it looked) and the ring is empty again.
C16_Witness ==
    /\ pipe.cap = MaxCap
    /\ rd.pc = "idle" /\ rd.count = pipe.cap
    /\ distance(pipe.head, pipe.tail) = 0 /\ Len(recvd) = sent

\* C17: when Reader::poll_read has returned Ready(Ok(0)), the Writer has been
\* dropped and no byte copied into the ring is unread.
C17_ZeroOnlyWhenClosed ==
    (rd.alive /\ rd.pc = "idle" /\ rd.ret = "ready" /\ rd.count = 0)
    => (~wr.alive /\ Len(recvd) = sent)

\* C18: a Writer::poll_write that makes its first check after the Reader was
\* dropped returns Ready(Ok(0)) at that check: nothing is read from the source,
\* and the tail, the buffer and the rest of the pipe are left as they are.
C18_WriteAfterClose ==
    [][(wr.pc = "closed0" /\ ~rd.alive /\ wr'.pc # wr.pc)
        => (/\ wr'.pc = "idle" /\ wr'.ret = "ready" /\ wr'.count = 0
            /\ wr'.src = wr.src /\ wr'.tail = wr.tail
            /\ pipe' = pipe /\ sent' = sent)]_vars

\* C18 witness: the Reader is dropped, and a poll_write with bytes in its source
\* and room in the ring has returned Ready(Ok(0)).
C18_Witness ==
    /\ ~rd.alive /\ wr.alive
    /\ wr.pc = "idle" /\ wr.ret = "ready" /\ wr.count = 0
    /\ wr.src > 0 /\ distance(wr.head, wr.tail) < pipe.cap

\* The worker threads that are alive.
Workers == starting + waiting + running[0] + running[1] + caught

\* C19: a panic of a runnable is caught by the worker that runs it: the worker
\* lives on (thread_count stays the number of live workers and idle_count the
\* number of those counted idle), the panic leaves idle_count, thread_count and
\* the queue as they are, and the worker's next step locks `inner` and pops the
\* next queued runnable and runs it.
C19_PanicCaught ==
    /\ [](thread_count = Workers /\ idle_count = starting + waiting)
    /\ [][caught' > caught
            => (/\ idle_count' = idle_count /\ thread_count' = thread_count
                /\ queue' = queue /\ Workers' = Workers)]_vars
    /\ [][(caught' < caught /\ queue # <<>>)
            => (/\ queue' = Tail(queue)
                /\ running'[Head(queue)] = running[Head(queue)] + 1
                /\ Workers' >= Workers)]_vars

\* C19 witness: a worker has caught a panic while a runnable is queued for it.
C19_Witness == caught > 0 /\ queue # <<>>

\* C20: with a handle dropped in any state, its task queued, executing or
\* suspended, no worker is lost and the counters stay consistent (thread_count is
\* the number of live workers, idle_count the number of those counted idle),
\* and the worker that ends the run of the dropped handle's task goes on with
\* the task loop: it pops and runs the runnable that is queued, if one is.
C20_DropKeepsWorkers ==
    /\ [](thread_count = Workers /\ idle_count = starting + waiting)
    /\ [][(state = "Dropped" /\ running'[1] < running[1])
            => (/\ Workers' >= Workers
                /\ queue # <<>> => (/\ queue' = Tail(queue)
                                    /\ running'[Head(queue)] = running[Head(queue)] + 1))]_vars

\* C20 witness: the handle was dropped and the future of its task was dropped by
\* the pool's only worker, which now runs a runnable of another caller.
C20_Witness ==
    /\ state = "Dropped" /\ task.status = "dropped"
    /\ thread_count = 1 /\ running[0] = 1

\* C21: whenever the mutex is free, idle_count <= thread_count, thread_count is
\* idle_count plus the number of workers in their run loop, and the counters
\* are not negative; every thread that is going to execute `idle_count -= 1`
\* (one that has not started yet, one that waits) is counted in idle_count, so
\* no decrement takes a counter below zero.
C21_CounterAccounting ==
    /\ idle_count <= thread_count
    /\ thread_count = idle_count + running[0] + running[1] + caught
    /\ idle_count >= 0 /\ thread_count >= 0
    /\ starting + waiting > 0 => (idle_count >= 1 /\ thread_count >= 1)

\* C21 witness: the pool is at its cap with workers waiting and workers running.
C21_Witness ==
    /\ thread_count = MAX_THREADS
    /\ waiting > 0 /\ running[0] + running[1] > 0

\* C22 as stated: idle_count is the number of workers inside wait_timeout.
C22_IdleIsWaiting == idle_count = waiting

\* C22 amended: idle_count is the number of workers inside wait_timeout plus the
\* number of threads grow_pool has spawned that have not yet entered their loop
\* ("the new thread starts in idle state"); no other worker is counted idle.
C22_IdleIsWaitingOrNew == idle_count = waiting + starting

\* C22 witness: a worker waits while a newly spawned thread has not started.
C22_Witness == waiting > 0 /\ starting > 0 /\ idle_count = waiting + starting

(***************************************************************************)
(* The pipe with a ring larger than the writer's first zeroing step.  The  *)
(* bytes themselves are left out (the buffer is <<>>); the endpoints move  *)
(* whole slices, so that `zeroed_until * 2 + 4096` is the term that decides *)
(* the size of a slice.                                                    *)
(***************************************************************************)
InitZero ==
    /\ ExecInit /\ no_handle
    /\ \E e \in 1..MaxZeroExtra : pipe = [NewPipe(ZERO_STEP + e) EXCEPT !.buffer = <<>>]
    /\ rd = NewReader /\ wr = NewWriter /\ sent = 0 /\ recvd = <<>>

\* The writer's task polls with a source of a whole ring of bytes, or of one
\* byte less than the first zeroing step.
Z_WPoll ==
    /\ wr.ret # "pending" \/ wr.woken
    /\ sent < MaxZeroRounds * ZERO_STEP
    /\ \E s \in {ZERO_STEP - 1, pipe.cap} : writer_enter(s)
    /\ UNCHANGED <<execVars, handleVars>>

\* One iteration of the writer's copy loop: src.read fills as much of the slice
\* as the source has.
Z_WCopy ==
    /\ wr.pc = "copy"
    /\ wr' = writer_after(Min(writer_n, wr.src))
    /\ sent' = sent + Min(writer_n, wr.src)
    /\ UNCHANGED <<pipe, rd, recvd, execVars, handleVars>>

\* The reader's task polls with room for a whole ring of bytes, or for one byte
\* less than the first zeroing step.
Z_RPoll ==
    /\ rd.ret # "pending" \/ rd.woken
    /\ \E d \in {ZERO_STEP - 1, pipe.cap} : reader_enter(d)
    /\ UNCHANGED <<execVars, handleVars>>

\* One iteration of the reader's copy loop: dest.write takes as much of the
\* slice as it has room for.
Z_RCopy ==
    /\ rd.pc = "copy"
    /\ rd' = reader_after(Min(reader_n, rd.dest))
    /\ UNCHANGED <<pipe, wr, sent, recvd, execVars, handleVars>>

ZeroNext ==
    \/ Z_WPoll \/ Z_WCopy \/ Z_RPoll \/ Z_RCopy
    \/ R_Load1 \/ R_Register \/ R_Load2 \/ R_Closed \/ R_Take \/ R_Store \/ R_Wake
    \/ W_Closed0 \/ W_Load1 \/ W_Register \/ W_Load2 \/ W_Closed \/ W_Take
    \/ W_Store \/ W_Wake
SpecZero == InitZero /\ [][ZeroNext]_vars

\* The position in the buffer of the j-th byte after the reader's head.
UnreadAt(j) == real_index((rd.head + j) % (2 * pipe.cap))

\* C23: in every step, zeroed_until does not decrease, stays within the
\* capacity, and grows by at most zeroed_until*2 + 4096; when the writer hands a
\* slice [from, from + n) to the source, the slice lies inside [0, zeroed_until)
\* and inside [0, cap); and the positions that are zeroed for it hold no byte
\* that was written and is not yet read.
C23_ZeroedSlice ==
    [][LET from == real_index(wr.tail)
           to == from + writer_n
       IN /\ wr'.zeroed_until >= wr.zeroed_until
          /\ wr'.zeroed_until <= pipe.cap
          /\ wr'.zeroed_until - wr.zeroed_until <= wr.zeroed_until * 2 + ZERO_STEP
          /\ (wr.pc = "copy" /\ wr'.pc # "copy") =>
                /\ 0 <= from /\ to <= wr'.zeroed_until /\ to <= pipe.cap
                /\ wr'.zeroed_until - wr.zeroed_until = Cardinality(zero_range(from, writer_n))
                /\ \A j \in 0..(distance(rd.head, wr.tail) - 1) :
                      UnreadAt(j) \notin zero_range(from, writer_n)]_vars

\* C23 witness: the source had more than 4096 bytes, and the first slice, cut to
\* zeroed_until*2 + 4096 = 4096 bytes, has been zeroed and filled.
C23_Witness ==
    /\ wr.pc = "store" /\ wr.count = ZERO_STEP /\ wr.zeroed_until = ZERO_STEP
    /\ wr.src > 0 /\ sent = ZERO_STEP

\* C24: poll_close returns Ready(Ok(())) only once poll_flush has found the
\* handle Idle, and then the handle is Idle with an empty slot; when the flush
\* returns an error, poll_close returns that error with the slot not cleared:
\* the handle is Idle and still holds the sink; while the flush is pending
\* the slot is not cleared either.
C24_CloseAfterFlush ==
    [][(call.op = "poll_close" /\ call'.op = "none") =>
          /\ call'.ret = "ok" => (state = "Idle" /\ state' = "Idle" /\ ~inner')
          /\ call'.ret = "err" => (state' = "Idle" /\ inner' /\ task'.status = "none")
          /\ call'.ret = "pending" => (state' = state /\ inner' = inner)]_vars

\* C24 witness: a poll_close entered in the Writing state has returned the
\* flush error, and the handle is Idle holding the sink.
C24_Witness ==
    /\ call.op = "none" /\ call.last = "poll_close" /\ call.ret = "err"
    /\ call.from = "Writing" /\ state = "Idle" /\ inner

\* C25: in every state with the mutex free, queue.len() <= 5 * idle_count or
\* thread_count = 500, and a non-empty queue implies thread_count >= 1; a
\* schedule made when no worker is idle and thread_count < 500 spawns at least
\* one thread.
C25_GrowthPostcondition ==
    /\ [](/\ Len(queue) <= GROW_FACTOR * idle_count \/ thread_count = MAX_THREADS
          /\ queue # <<>> => thread_count >= 1)
    /\ [][(Len(queue') > Len(queue) /\ idle_count = 0 /\ thread_count < MAX_THREADS)
            => (thread_count' > thread_count /\ starting' > starting)]_vars

\* C25 witness: six runnables are queued for two idle workers below the cap (the
\* sixth made the pool grow).
C25_Witness ==
    /\ Len(queue) = GROW_FACTOR + 1 /\ idle_count = 2 /\ thread_count < MAX_THREADS

\* A second case of C25: at the cap, runnables are queued and no worker is idle.
C25_WitnessAtCap ==
    /\ queue # <<>> /\ idle_count = 0 /\ thread_count = MAX_THREADS

\* C26: a worker leaves the pool only from its wait, when the queue is empty,
\* and its exit takes exactly one from idle_count and one from thread_count; a
\* wait that ended by a notification (res.timed_out() false) never ends the
\* thread, and neither does a timeout while a runnable is queued.
C26_ExitOnlyOnIdleTimeout ==
    /\ [][thread_count' < thread_count =>
            /\ queue = <<>> /\ queue' = <<>>
            /\ waiting' = waiting - 1 /\ starting' = starting /\ running' = running
            /\ thread_count' = thread_count - 1
            /\ idle_count' = idle_count - 1]_vars
    /\ [][WorkerWake(FALSE) => thread_count' >= thread_count]_vars
    /\ [][(WorkerWake(TRUE) /\ queue # <<>>) => thread_count' >= thread_count]_vars

\* C26 witness: a worker of the pool that was in blocking calls has returned,
\* waited and left, and another one waits.
C26_Witness ==
    /\ thread_count = MAX_THREADS - MaxBurstRoom - 1
    /\ submits = MaxBurst /\ waiting > 0

\* C27: while a worker executes a runnable (or has caught its panic), no guard
\* of the executor mutex is alive, so that a schedule called from inside the run
\* gets the mutex and goes through.
C27_RunsOutsideMutex ==
    (running[0] + running[1] + caught > 0) => (~locked /\ ENABLED enqueue(0))

\* C27 witness: two workers execute runnables at the same time, and a runnable
\* scheduled meanwhile is queued.
C27_Witness ==
    /\ running[0] >= 2 /\ queue # <<>> /\ ~locked /\ thread_count < MAX_THREADS - MaxBurstRoom

\* The task holds the wrapped value: in its future, or in its output.
TaskHoldsValue == task.status \in {"active", "done", "cancelled"}

\* C28: the wrapped value is never both in the Idle slot and in a task, and
\* while the handle lives and no task has failed it is in exactly one of them;
\* a busy state has given the value to its task; a task is started only by
\* poll_read / poll_write / poll_next, from Idle with the value in the slot and
\* the task before it joined, so that two tasks of a handle never coexist; a
\* call that finds a task of another kind, or a task whose endpoint is already
\* dropped, goes through poll_stop and starts nothing in that step.
C28_SingleOwner ==
    /\ [](/\ ~(inner /\ TaskHoldsValue)
          /\ (state # "Dropped" /\ task.status # "failed") => (inner \/ TaskHoldsValue)
          /\ state \in {"Reading", "Writing", "Streaming", "Task"} => ~inner
          /\ inner => state = "Idle")
    /\ [][task'.n > task.n =>
            /\ state = "Idle" /\ inner /\ task.status = "none"
            /\ call.op \in {"poll_read", "poll_write", "poll_next"}
            /\ task'.n = task.n + 1 /\ task'.status = "active" /\ ~inner']_vars
    /\ [][(/\ call.pc = "match" /\ call'.pc # "match"
           /\ \/ call.op = "poll_read" /\ (state = "Writing" \/ (state = "Reading" /\ ~rd.alive))
              \/ call.op = "poll_write" /\ (state = "Reading" \/ (state = "Writing" /\ ~wr.alive)))
            => (call'.pc = "stop" /\ task' = task /\ state' = state)]_vars

\* C28 witness: a poll_write found the reading task, stopped it and got the
\* value back, and has started the writing task.
C28_Witness ==
    /\ call.op = "poll_write" /\ call.from = "Reading"
    /\ state = "Writing" /\ task.kind = "writing" /\ task.n = 2 /\ task.status = "active"

\* The ranges [a, a + n) and [b, b + m) have no position in common.
Apart(a, n, b, m) == n = 0 \/ m = 0 \/ a + n <= b \/ b + m <= a

\* C29: the slice the reader has made lies inside [0, cap), holds only bytes
\* between its head and the tail it loaded, that tail is not ahead of the
\* published tail, and the bytes are initialized; the slice the writer has made
\* and the range it zeroes lie inside [0, cap); and while both endpoints are at
\* their copy, the reader's slice has no position in common with the writer's
\* slice or with the range the writer zeroes.
C29_RangesDisjoint ==
    LET rfrom == real_index(rd.head)
        wfrom == real_index(wr.tail)
        zeroes == zero_range(wfrom, writer_n)
    IN /\ rd.pc = "copy" =>
             /\ 0 <= rfrom /\ rfrom + reader_n <= pipe.cap
             /\ reader_n <= distance(rd.head, rd.tail)
             /\ distance(rd.head, rd.tail) <= distance(rd.head, pipe.tail)
             /\ distance(rd.head, pipe.tail) <= pipe.cap
             /\ rfrom + reader_n <= wr.zeroed_until
       /\ wr.pc = "copy" =>
             /\ 0 <= wfrom /\ wfrom + writer_n <= pipe.cap
             /\ \A i \in zeroes : 0 <= i /\ i < pipe.cap
       /\ (rd.pc = "copy" /\ wr.pc = "copy") =>
             /\ Apart(rfrom, reader_n, wfrom, writer_n)
             /\ \A i \in zeroes : i < rfrom \/ i >= rfrom + reader_n

\* C29 witness: the reader is at its copy with a slice of 4096 bytes while the
\* writer is at its copy with a slice behind it that it has yet to zero.
C29_Witness ==
    /\ rd.pc = "copy" /\ wr.pc = "copy"
    /\ reader_n = ZERO_STEP /\ writer_n > 0
    /\ zero_range(real_index(wr.tail), writer_n) # {}

\* The number of places where seq, a sequence of numbered bytes or items, leaves
\* some out.
Gaps(seq) ==
    Cardinality({i \in 1..Len(seq) : seq[i] # (IF i = 1 THEN 1 ELSE seq[i - 1] + 1)})

\* C30: for a handle around a source (an iterator): the bytes (items) the caller
\* has got are bytes the source has given up, in the source's order; up to the
\* first stop they are a prefix of them, and they leave bytes out only where a
\* stopped task was followed by a new one; the new task starts on an empty
\* ring (channel) with the source where the stopped task left it; and each
\* byte (item) the caller gets is the oldest one in the transport, counted
\* back from the source's current position.
C30_StopDiscardsTransport ==
    /\ [](io.kind = "source" =>
             /\ \A i \in 1..Len(recvd) : recvd[i] \in 1..sent
             /\ \A i \in 1..(Len(recvd) - 1) : recvd[i] < recvd[i + 1]
             /\ Gaps(recvd) <= (IF task.n = 0 THEN 0 ELSE task.n - 1))
    /\ [](io.kind = "iter" =>
             /\ \A i \in 1..Len(stream.got) : stream.got[i] \in 1..stream.next
             /\ \A i \in 1..(Len(stream.got) - 1) : stream.got[i] < stream.got[i + 1]
             /\ Gaps(stream.got) <= (IF task.n = 0 THEN 0 ELSE task.n - 1))
    /\ [][(io.kind = "source" /\ task'.n > task.n) =>
             (pipe'.head = 0 /\ pipe'.tail = 0 /\ rd'.head = 0 /\ wr'.tail = 0 /\ sent' = sent)]_vars
    /\ [][(io.kind = "iter" /\ task'.n > task.n) =>
             (stream'.queue = <<>> /\ stream'.next = stream.next)]_vars
    /\ [][(io.kind = "source" /\ Len(recvd') > Len(recvd)) =>
             recvd'[Len(recvd) + 1] = sent - distance(rd.head, wr.tail) + 1]_vars
    /\ [][(io.kind = "iter" /\ Len(stream'.got) > Len(stream.got)) =>
             stream'.got[Len(stream.got) + 1] = stream.next - Len(stream.queue) + 1]_vars

\* C30 witness: a reading task was stopped with bytes in the ring, and the
\* caller has got the first byte of the next task: a byte is left out.
C30_Witness ==
    /\ io.kind = "source" /\ task.n = 2 /\ state = "Reading"
    /\ Gaps(recvd) = 1 /\ Len(recvd) >= 2

\* A second case of C30: an item is left out of the stream.
C30_WitnessStream ==
    /\ io.kind = "iter" /\ task.n = 2 /\ Gaps(stream.got) = 1 /\ Len(stream.got) >= 2
====
